---- MODULE Spec2Model ----
(***************************************************************************)
(* JarvisX STT service (services/stt/main.py): the request-to-result       *)
(* transcription pipeline.  transcribe_audio (POST /transcribe) and        *)
(* transcribe_batch (POST /transcribe-batch) are modelled statement by     *)
(* statement; the Whisper engine and the filesystem are the environment.   *)
(*                                                                         *)
(* Strings the code inspects character by character (filenames, texts)     *)
(* are sequences of one-character strings.  The bytes of an upload are     *)
(* opaque to the code and are modelled by a positive identifier.           *)
(***************************************************************************)
EXTENDS Integers, Sequences, FiniteSets, TLC

VARIABLES
    whisper_model,  \* the process-wide engine handle: "None" or "loaded"
    fs,             \* the temp directory: path -> the file stored under it
    request,        \* per client: the POST /transcribe request it sends
    pc,             \* per call: the statement transcribe_audio is at
    locals,         \* per call: the bound local names of transcribe_audio
    inflight,       \* per call: the return value or exception in flight
    engine_log,     \* per call: the arguments the engine was invoked with
    outcome,        \* per call: what transcribe_audio returned or raised
    batch           \* the transcribe_batch handler

vars == <<whisper_model, fs, request, pc, locals, inflight, engine_log, outcome, batch>>

---------------------------------------------------------------------------
(* Bounds of the model *)

\* number of concurrent POST /transcribe calls
NumCalls == 2
\* longest batch
MaxBatch == 2
\* number of candidate names in the temp directory
NumPaths == 3
\* longest text the engine returns
MaxTextLen == 2
\* most segments the engine returns
MaxSegs == 2

---------------------------------------------------------------------------
(* Strings *)

UpperLetters == <<"A","B","C","D","E","F","G","H","I","J","K","L","M",
                  "N","O","P","Q","R","S","T","U","V","W","X","Y","Z">>
LowerLetters == <<"a","b","c","d","e","f","g","h","i","j","k","l","m",
                  "n","o","p","q","r","s","t","u","v","w","x","y","z">>

\* str.lower() on one character
LowerChar(c) ==
    IF \E i \in DOMAIN UpperLetters : UpperLetters[i] = c
    THEN LowerLetters[CHOOSE i \in DOMAIN UpperLetters : UpperLetters[i] = c]
    ELSE c

\* str.lower()
lower(s) == [i \in DOMAIN s |-> LowerChar(s[i])]

\* str.rfind(ch), 1-based; 0 when ch does not occur (Python's -1)
rfind(s, ch) ==
    IF \E i \in DOMAIN s : s[i] = ch
    THEN CHOOSE i \in DOMAIN s : s[i] = ch /\ \A j \in DOMAIN s : s[j] = ch => j <= i
    ELSE 0

\* os.path.splitext(p)[1]: the text from the last dot of the last path
\* component on, unless only dots precede it in that component
splitext_ext(p) ==
    LET sepIndex == rfind(p, "/")
        dotIndex == rfind(p, ".")
    IN  IF /\ dotIndex > sepIndex
           /\ \E k \in (sepIndex + 1)..(dotIndex - 1) : p[k] # "."
        THEN SubSeq(p, dotIndex, Len(p))
        ELSE <<>>

\* the characters str.strip() removes
Whitespace == {" ", "\t", "\n", "\r"}

RECURSIVE lstrip(_)
lstrip(s) == IF s # <<>> /\ Head(s) \in Whitespace THEN lstrip(Tail(s)) ELSE s

RECURSIVE rstrip(_)
rstrip(s) ==
    IF s # <<>> /\ s[Len(s)] \in Whitespace THEN rstrip(SubSeq(s, 1, Len(s) - 1)) ELSE s

\* a variant of strip that trims the left end only
strip_left_only(s) == lstrip(s)

\* str.strip()
strip(s) == rstrip(lstrip(s))

RECURSIVE SeqsUpTo(_, _)
\* all sequences over S of length at most n
SeqsUpTo(S, n) ==
    IF n = 0 THEN {<<>>}
    ELSE LET shorter == SeqsUpTo(S, n - 1)
         IN  shorter \cup {Append(s, x) : s \in {t \in shorter : Len(t) = n - 1}, x \in S}

---------------------------------------------------------------------------
(* Values *)

Wav == <<"a", ".", "w", "a", "v">>
WavUpper == <<"A", ".", "W", "A", "V">>
Txt == <<"a", ".", "t", "x", "t">>
NoExt == <<"a">>
DotFile == <<".", "w", "a", "v">>
WavTxt == <<"a", ".", "w", "a", "v", ".", "t", "x", "t">>
DirWav == <<"d", ".", "w", "a", "v", "/", "a">>

\* the filenames uploads arrive with
FileNames == {Wav, WavUpper, Txt, NoExt, DotFile, WavTxt, DirWav}

\* a variant of the allowed set that also admits .txt
allowed_extensions_with_txt ==
    {<<".", "w", "a", "v">>, <<".", "m", "p", "3">>, <<".", "m", "4", "a">>,
     <<".", "f", "l", "a", "c">>, <<".", "o", "g", "g">>, <<".", "w", "e", "b", "m">>,
     <<".", "t", "x", "t">>}

allowed_extensions ==
    {<<".", "w", "a", "v">>, <<".", "m", "p", "3">>, <<".", "m", "4", "a">>,
     <<".", "f", "l", "a", "c">>, <<".", "o", "g", "g">>, <<".", "w", "e", "b", "m">>}

\* the bytes of a file nothing was written to
NoBytes == 0

\* the names tempfile can give a staging file
Paths == 1..NumPaths

\* the form field `language` as the client sends it; NoField: not sent
NoField == "<no field>"
LanguageForms == {"si", "en", "auto", "xx", NoField}

\* Form("si"): the value the handler's `language` parameter is bound to
FormDefault(form) == IF form = NoField THEN "si" ELSE form

\* what makes processing an upload fail: reading it, writing its bytes,
\* or the engine on its audio
Faults == {"none", "read", "write", "engine"}

Texts == SeqsUpTo({" ", "a"}, MaxTextLen)

SegmentPool ==
    {[start |-> 0, end |-> 1, text |-> <<" ", "a">>],
     [start |-> 1, end |-> 2, text |-> <<"a">>]}

SegmentLists == SeqsUpTo(SegmentPool, MaxSegs)

\* what whisper's transcribe returns: "text" always, the other keys or not
EngineResults ==
    UNION {
        [text : Texts],
        [text : Texts, language : {"en"}],
        [text : Texts, duration : {3}],
        [text : Texts, language : {"en"}, duration : {3}],
        [text : Texts, segments : SegmentLists],
        [text : Texts, language : {"en"}, segments : SegmentLists],
        [text : Texts, duration : {3}, segments : SegmentLists],
        [text : Texts, language : {"en"}, duration : {3}, segments : SegmentLists]
    }

\* the result field of an upload the engine never gets to answer
NoAnswer == [text |-> <<>>]

\* an UploadFile: its filename, the identity of its bytes, and how the
\* environment treats it (fault, and the engine's answer to its audio)
Uploads(id) ==
    {[filename |-> f, id |-> id, fault |-> "none", result |-> r] :
        f \in FileNames, r \in EngineResults}
    \cup
    {[filename |-> f, id |-> id, fault |-> x, result |-> NoAnswer] :
        f \in FileNames, x \in Faults \ {"none"}}

\* the uploads of the batch and of the concurrent scenario: every filename
\* class and fault, and two answers of the engine
FewResults ==
    {[text |-> <<" ", "a">>],
     [text |-> <<"a", " ">>, language |-> "en", duration |-> 3,
      segments |-> <<[start |-> 0, end |-> 1, text |-> <<" ", "a">>]>>]}

FewUploads(id) ==
    {u \in Uploads(id) :
        /\ u.filename \in {Wav, Txt}
        /\ u.fault = "none" => u.result \in FewResults}

\* the calls: 1..NumCalls are POST /transcribe requests, 0 is the call
\* transcribe_batch makes for the file it is at
BatchCallId == 0
Clients == 1..NumCalls
Calls == {BatchCallId} \cup Clients

\* the identity of the i-th upload of the batch
BatchUploadId(i) == NumCalls + i

---------------------------------------------------------------------------
(* Return values and exceptions *)

\* JSONResponse(content=response)
JSONResponse(response) == [kind |-> "return", body |-> response]

\* HTTPException(status_code, detail)
HTTPException(status_code, detail) ==
    [kind |-> "HTTPException", status_code |-> status_code, detail |-> detail]

\* an exception raised by the upload's read or write, or by the engine
Raised(origin) == [kind |-> "Exception", origin |-> origin]

\* the NameError of reading a local name that was never bound
UnboundLocalError(name) == [kind |-> "UnboundLocalError", name |-> name]

\* what the framework answers to a POST /transcribe call that ended with o
HttpResponse(o) ==
    CASE o.kind = "return" -> [status_code |-> 200, content |-> o.body]
      [] o.kind = "HTTPException" ->
            [status_code |-> o.status_code, detail |-> o.detail]
      [] OTHER -> [status_code |-> 500, detail |-> [msg |-> "Internal Server Error"]]

---------------------------------------------------------------------------
(* The local names of a call *)

NoLocals == <<>>

Bound(p, name) == name \in DOMAIN locals[p]

\* locals[p] with name bound to value
Bind(p, name, value) == (name :> value) @@ locals[p]

Remove(f, x) == [y \in DOMAIN f \ {x} |-> f[y]]

---------------------------------------------------------------------------
(* transcribe_audio                                                        *)
(*                                                                         *)
(* One action per statement.  The event loop switches between calls at     *)
(* `await file.read()` only; the statements are interleaved freely here,   *)
(* which includes every interleaving of the event loop (and those of       *)
(* several server processes sharing one temp directory).  The environment  *)
(* decides three things: which free name tempfile picks, whether the       *)
(* buffered write reaches the disk at once, and whether os.unlink fails.   *)
(* Whether reading, writing or transcribing an upload fails, and what the  *)
(* engine answers, is a property of the upload.                            *)

\* a variant of the language hint that also passes "auto" through
EngineLanguagePassAuto(language) ==
    IF language \in {"si", "en", "auto"} THEN language ELSE "None"

\* language if language in ["si", "en"] else None
EngineLanguage(language) ==
    IF language \in {"si", "en"} THEN language ELSE "None"

\* result.get(key, default)
Get(result, key, default) == IF key \in DOMAIN result THEN result[key] ELSE default

\* the segments of the response: start, end and text of each engine segment
ResponseSegments(result) ==
    [i \in DOMAIN result.segments |->
        [start |-> result.segments[i].start,
         end |-> result.segments[i].end,
         text |-> result.segments[i].text]]

\* a variant of the response that adds segments whenever the engine has any
ResponseIgnoringTimestamp(result, language, timestamp, filename) ==
    LET response == [text |-> strip(result.text),
                     language |-> Get(result, "language", language),
                     duration |-> Get(result, "duration", 0),
                     filename |-> filename]
    IN  IF "segments" \in DOMAIN result
        THEN ("segments" :> ResponseSegments(result)) @@ response
        ELSE response

\* the response dict built from the engine's result
Response(result, language, timestamp, filename) ==
    LET response == [text |-> strip(result.text),
                     language |-> Get(result, "language", language),
                     duration |-> Get(result, "duration", 0),
                     filename |-> filename]
    IN  IF timestamp /\ "segments" \in DOMAIN result
        THEN ("segments" :> ResponseSegments(result)) @@ response
        ELSE response

\* the handler is entered with its parameters bound
Enter(p, file, language, timestamp) ==
    /\ pc' = [pc EXCEPT ![p] = "check_model"]
    /\ locals' = [locals EXCEPT ![p] =
                    [file |-> file, language |-> language, timestamp |-> timestamp]]
    /\ inflight' = Remove(inflight, p)
    /\ engine_log' = Remove(engine_log, p)
    /\ outcome' = Remove(outcome, p)

\* the handler is left with the return value or exception o
Leave(p, o) ==
    /\ pc' = [pc EXCEPT ![p] = "done"]
    /\ outcome' = (p :> o) @@ outcome
    /\ inflight' = Remove(inflight, p)

\* a client's POST /transcribe reaches the handler
Arrive(p) ==
    /\ p \in DOMAIN request
    /\ pc[p] = "idle"
    /\ Enter(p, request[p].file, FormDefault(request[p].language), request[p].timestamp)
    /\ UNCHANGED <<whisper_model, fs, request, batch>>

\* if not whisper_model: raise HTTPException(500)
CheckModel(p) ==
    /\ pc[p] = "check_model"
    /\ IF whisper_model = "None"
       THEN Leave(p, HTTPException(500, [msg |-> "Whisper model not loaded"]))
       ELSE /\ pc' = [pc EXCEPT ![p] = "validate"]
            /\ UNCHANGED <<inflight, outcome>>
    /\ UNCHANGED <<whisper_model, fs, request, locals, engine_log, batch>>

\* the file type check
ValidateFileType(p) ==
    /\ pc[p] = "validate"
    /\ LET file_ext == lower(splitext_ext(locals[p].file.filename))
       IN  /\ locals' = [locals EXCEPT ![p] = Bind(p, "file_ext", file_ext)]
           /\ IF file_ext \notin allowed_extensions
              THEN Leave(p, HTTPException(400,
                        [msg |-> "Unsupported file type", file_ext |-> file_ext,
                         allowed |-> allowed_extensions]))
              ELSE /\ pc' = [pc EXCEPT ![p] = "create_temp"]
                   /\ UNCHANGED <<inflight, outcome>>
    /\ UNCHANGED <<whisper_model, fs, request, engine_log, batch>>

\* with tempfile.NamedTemporaryFile(delete=False, suffix=file_ext) as temp_file:
\* a file under a name no existing file has
CreateTemp(p) ==
    /\ pc[p] = "create_temp"
    /\ \E path \in Paths \ DOMAIN fs :
          /\ fs' = (path :> [owner |-> locals[p].file.id, suffix |-> locals[p].file_ext,
                             written |-> NoBytes, disk |-> NoBytes]) @@ fs
          /\ locals' = [locals EXCEPT ![p] = Bind(p, "temp_file", path)]
    /\ pc' = [pc EXCEPT ![p] = "read"]
    /\ UNCHANGED <<whisper_model, request, inflight, engine_log, outcome, batch>>

\* content = await file.read()
ReadUpload(p) ==
    /\ pc[p] = "read"
    /\ IF locals[p].file.fault = "read"
       THEN /\ inflight' = (p :> Raised("read")) @@ inflight
            /\ pc' = [pc EXCEPT ![p] = "except"]
            /\ UNCHANGED locals
       ELSE /\ locals' = [locals EXCEPT ![p] = Bind(p, "content", locals[p].file.id)]
            /\ pc' = [pc EXCEPT ![p] = "write"]
            /\ UNCHANGED inflight
    /\ UNCHANGED <<whisper_model, fs, request, engine_log, outcome, batch>>

\* temp_file.write(content); temp_file_path = temp_file.name
\* The write is buffered and nothing flushes it: the bytes are on disk at
\* once only when they do not fit the buffer.
WriteTemp(p) ==
    /\ pc[p] = "write"
    /\ IF locals[p].file.fault = "write"
       THEN /\ inflight' = (p :> Raised("write")) @@ inflight
            /\ pc' = [pc EXCEPT ![p] = "except"]
            /\ UNCHANGED <<fs, locals>>
       ELSE /\ \E flushed \in BOOLEAN :
                  fs' = [fs EXCEPT ![locals[p].temp_file] =
                            [@ EXCEPT !.written = locals[p].content,
                                      !.disk = IF flushed THEN locals[p].content
                                               ELSE NoBytes]]
            /\ locals' = [locals EXCEPT ![p] =
                            Bind(p, "temp_file_path", locals[p].temp_file)]
            /\ pc' = [pc EXCEPT ![p] = "transcribe"]
            /\ UNCHANGED inflight
    /\ UNCHANGED <<whisper_model, request, engine_log, outcome, batch>>

\* result = whisper_model.transcribe(temp_file_path, language=..., word_timestamps=timestamp)
Transcribe(p) ==
    /\ pc[p] = "transcribe"
    /\ LET path == locals[p].temp_file_path
       IN  engine_log' = (p :> [path |-> path,
                                language |-> EngineLanguage(locals[p].language),
                                word_timestamps |-> locals[p].timestamp,
                                audio |-> IF path \in DOMAIN fs THEN fs[path].disk
                                          ELSE NoBytes]) @@ engine_log
    /\ IF locals[p].file.fault = "engine"
       THEN /\ inflight' = (p :> Raised("engine")) @@ inflight
            /\ pc' = [pc EXCEPT ![p] = "except"]
            /\ UNCHANGED locals
       ELSE /\ locals' = [locals EXCEPT ![p] = Bind(p, "result", locals[p].file.result)]
            /\ pc' = [pc EXCEPT ![p] = "respond"]
            /\ UNCHANGED inflight
    /\ UNCHANGED <<whisper_model, fs, request, outcome, batch>>

\* response = {...}; return JSONResponse(content=response)
Respond(p) ==
    /\ pc[p] = "respond"
    /\ LET response == Response(locals[p].result, locals[p].language,
                                locals[p].timestamp, locals[p].file.filename)
       IN  /\ locals' = [locals EXCEPT ![p] = Bind(p, "response", response)]
           /\ inflight' = (p :> JSONResponse(response)) @@ inflight
    /\ pc' = [pc EXCEPT ![p] = "finally"]
    /\ UNCHANGED <<whisper_model, fs, request, engine_log, outcome, batch>>

\* except Exception as e: raise HTTPException(500, "Transcription failed: ...")
Except(p) ==
    /\ pc[p] = "except"
    /\ inflight' = [inflight EXCEPT ![p] =
                      HTTPException(500, [msg |-> "Transcription failed",
                                          cause |-> inflight[p].origin])]
    /\ pc' = [pc EXCEPT ![p] = "finally"]
    /\ UNCHANGED <<whisper_model, fs, request, locals, engine_log, outcome, batch>>

\* finally: try: os.unlink(temp_file_path); except OSError: pass
\* Reading temp_file_path when it was never bound raises UnboundLocalError,
\* which is no OSError and replaces the exception in flight.  unlink itself
\* may fail with an OSError, which is passed over.
Finally(p) ==
    /\ pc[p] = "finally"
    /\ IF Bound(p, "temp_file_path")
       THEN /\ \E unlinked \in BOOLEAN :
                  fs' = IF unlinked /\ locals[p].temp_file_path \in DOMAIN fs
                        THEN Remove(fs, locals[p].temp_file_path)
                        ELSE fs
            /\ UNCHANGED inflight
       ELSE /\ inflight' = [inflight EXCEPT ![p] = UnboundLocalError("temp_file_path")]
            /\ UNCHANGED fs
    /\ pc' = [pc EXCEPT ![p] = "exit_with"]
    /\ UNCHANGED <<whisper_model, request, locals, engine_log, outcome, batch>>

\* the with block is left: temp_file is closed, which flushes the buffered
\* bytes to the file if it is still there, and the call ends
ExitWith(p) ==
    /\ pc[p] = "exit_with"
    /\ LET path == locals[p].temp_file
       IN  fs' = IF path \in DOMAIN fs /\ fs[path].owner = locals[p].file.id
                 THEN [fs EXCEPT ![path] = [fs[path] EXCEPT !.disk = fs[path].written]]
                 ELSE fs
    /\ pc' = [pc EXCEPT ![p] = "done"]
    /\ outcome' = (p :> inflight[p]) @@ outcome
    /\ inflight' = Remove(inflight, p)
    /\ UNCHANGED <<whisper_model, request, locals, engine_log, batch>>

---------------------------------------------------------------------------
(* transcribe_batch *)

\* the entry of results for a file whose call ended with o
BatchEntry(file, o) ==
    IF o.kind = "return"
    THEN [filename |-> file.filename, status |-> "success", result |-> o.body]
    ELSE [filename |-> file.filename, status |-> "error", error |-> o]

\* the file the for loop is at
BatchIndex == Len(batch.results) + 1

\* a client's POST /transcribe-batch reaches the handler: results = []
BatchArrive ==
    /\ batch.pc = "idle"
    /\ batch.files # <<>>
    /\ batch' = [batch EXCEPT !.pc = "loop",
                              !.language = FormDefault(batch.form),
                              !.results = <<>>]
    /\ UNCHANGED <<whisper_model, fs, request, pc, locals, inflight, engine_log, outcome>>

\* a variant of the call that hands every iteration the first file
BatchCallFirstFile ==
    /\ batch.pc = "loop"
    /\ BatchIndex <= Len(batch.files)
    /\ pc[BatchCallId] = "idle"
    /\ Enter(BatchCallId, batch.files[1], batch.language, FALSE)
    /\ batch' = [batch EXCEPT !.pc = "await"]
    /\ UNCHANGED <<whisper_model, fs, request>>

\* for file in files: await transcribe_audio(file=single_file, language=language, timestamp=False)
BatchCall ==
    /\ batch.pc = "loop"
    /\ BatchIndex <= Len(batch.files)
    /\ pc[BatchCallId] = "idle"
    /\ Enter(BatchCallId, batch.files[BatchIndex], batch.language, FALSE)
    /\ batch' = [batch EXCEPT !.pc = "await"]
    /\ UNCHANGED <<whisper_model, fs, request>>

\* a variant of the loop that stops at the first file that fails
BatchCollectAborting ==
    /\ batch.pc = "await"
    /\ pc[BatchCallId] = "done"
    /\ LET o == outcome[BatchCallId]
       IN  batch' = IF o.kind = "return"
                    THEN [batch EXCEPT !.pc = "loop",
                            !.results = Append(@, BatchEntry(batch.files[BatchIndex], o))]
                    ELSE [batch EXCEPT !.pc = "done", !.returned = TRUE]
    /\ pc' = [pc EXCEPT ![BatchCallId] = "idle"]
    /\ UNCHANGED <<whisper_model, fs, request, locals, inflight, engine_log, outcome>>

\* the call returned: results.append(success entry); it raised:
\* except Exception as e: results.append(error entry); then the next file
BatchCollect ==
    /\ batch.pc = "await"
    /\ pc[BatchCallId] = "done"
    /\ batch' = [batch EXCEPT !.pc = "loop",
                    !.results = Append(@, BatchEntry(batch.files[BatchIndex],
                                                     outcome[BatchCallId]))]
    /\ pc' = [pc EXCEPT ![BatchCallId] = "idle"]
    /\ UNCHANGED <<whisper_model, fs, request, locals, inflight, engine_log, outcome>>

\* return JSONResponse(content={"results": results})
BatchReturn ==
    /\ batch.pc = "loop"
    /\ BatchIndex > Len(batch.files)
    /\ batch' = [batch EXCEPT !.pc = "done", !.returned = TRUE]
    /\ UNCHANGED <<whisper_model, fs, request, pc, locals, inflight, engine_log, outcome>>

---------------------------------------------------------------------------
(* Startup *)

\* no request has reached a handler yet
NoRequestYet ==
    /\ \A p \in Calls : pc[p] = "idle" /\ p \notin DOMAIN outcome
    /\ batch.pc = "idle"

\* startup_event: load_whisper_model() sets the global before the first
\* request is served; a client made without running the startup never runs it
Startup ==
    /\ whisper_model = "None"
    /\ NoRequestYet
    /\ whisper_model' = "loaded"
    /\ UNCHANGED <<fs, request, pc, locals, inflight, engine_log, outcome, batch>>

---------------------------------------------------------------------------
(* Specifications *)

IdleBatch ==
    [pc |-> "idle", files |-> <<>>, form |-> NoField, language |-> "si",
     results |-> <<>>, returned |-> FALSE]

InitProcess ==
    /\ whisper_model = "None"
    /\ fs = <<>>
    /\ pc = [p \in Calls |-> "idle"]
    /\ locals = [p \in Calls |-> NoLocals]
    /\ inflight = <<>>
    /\ engine_log = <<>>
    /\ outcome = <<>>

\* one POST /transcribe request, of any kind
InitSingle ==
    /\ InitProcess
    /\ \E file \in Uploads(1), language \in LanguageForms, timestamp \in BOOLEAN :
          request = (1 :> [file |-> file, language |-> language, timestamp |-> timestamp])
    /\ batch = IdleBatch

\* the batches of 1..MaxBatch files
BatchFiles ==
    UNION {{files \in [1..n -> UNION {FewUploads(BatchUploadId(i)) : i \in 1..n}] :
                \A i \in 1..n : files[i].id = BatchUploadId(i)} : n \in 1..MaxBatch}

\* one POST /transcribe-batch request
InitBatch ==
    /\ InitProcess
    /\ request = <<>>
    /\ \E files \in BatchFiles, form \in LanguageForms :
          batch = [IdleBatch EXCEPT !.files = files, !.form = form]

\* NumCalls concurrent POST /transcribe requests
InitConcurrent ==
    /\ InitProcess
    /\ request \in {r \in [Clients -> [file : UNION {FewUploads(p) : p \in Clients},
                                       language : {"si"}, timestamp : {FALSE}]] :
                        \A p \in Clients : r[p].file.id = p}
    /\ batch = IdleBatch

Init == InitSingle \/ InitBatch

Next ==
    \/ Startup
    \/ \E p \in Clients : Arrive(p)
    \/ \E p \in Calls : CheckModel(p)
    \/ \E p \in Calls : ValidateFileType(p)
    \/ \E p \in Calls : CreateTemp(p)
    \/ \E p \in Calls : ReadUpload(p)
    \/ \E p \in Calls : WriteTemp(p)
    \/ \E p \in Calls : Transcribe(p)
    \/ \E p \in Calls : Respond(p)
    \/ \E p \in Calls : Except(p)
    \/ \E p \in Calls : Finally(p)
    \/ \E p \in Calls : ExitWith(p)
    \/ BatchArrive
    \/ BatchCall
    \/ BatchCollect
    \/ BatchReturn

Spec == Init /\ [][Next]_vars

\* the steps of the POST /transcribe calls alone
NextConcurrent ==
    \/ Startup
    \/ \E p \in Clients : Arrive(p)
    \/ \E p \in Clients : CheckModel(p)
    \/ \E p \in Clients : ValidateFileType(p)
    \/ \E p \in Clients : CreateTemp(p)
    \/ \E p \in Clients : ReadUpload(p)
    \/ \E p \in Clients : WriteTemp(p)
    \/ \E p \in Clients : Transcribe(p)
    \/ \E p \in Clients : Respond(p)
    \/ \E p \in Clients : Except(p)
    \/ \E p \in Clients : Finally(p)
    \/ \E p \in Clients : ExitWith(p)

SpecConcurrent == InitConcurrent /\ [][NextConcurrent]_vars

---------------------------------------------------------------------------
(* Vocabulary of the properties *)

\* the extension set the service documents
SupportedExtensions ==
    {<<".", "w", "a", "v">>, <<".", "m", "p", "3">>, <<".", "m", "4", "a">>,
     <<".", "f", "l", "a", "c">>, <<".", "o", "g", "g">>, <<".", "w", "e", "b", "m">>}

\* the lower-cased extension of an upload's filename
ExtensionOf(file) == lower(splitext_ext(file.filename))

Supported(file) == ExtensionOf(file) \in SupportedExtensions

\* call p has been entered
Entered(p) == pc[p] # "idle"

\* call p is inside the staging scope: its file is created and its finally
\* block has not run yet
InScope(p) == pc[p] \in {"read", "write", "transcribe", "respond", "except", "finally"}

\* call p created a staging file
Staged(p) == Entered(p) /\ Bound(p, "temp_file")

\* the staging files on disk that belong to upload id
FilesOf(id) == {path \in DOMAIN fs : fs[path].owner = id}

\* s has no leading and no trailing whitespace
Trimmed(s) == s = <<>> \/ (s[1] \notin Whitespace /\ s[Len(s)] \notin Whitespace)

\* the single-item flow on this file alone ends in a 200
SingleItemSucceeds(file) ==
    /\ whisper_model = "loaded"
    /\ Supported(file)
    /\ file.fault = "none"

---------------------------------------------------------------------------
(* C1: every call of transcribe_audio that created a staging file has no   *)
(* staging file left on the filesystem when it returns or raises, on every *)
(* exit path of the staging scope, a failing read or write included.       *)
C1_StagingFileGone ==
    \A p \in Calls :
        (pc[p] = "done" /\ Staged(p)) => FilesOf(locals[p].file.id) = {}

(* C2: a request whose filename has a lower-cased extension outside the    *)
(* supported set (no extension included) is rejected before any temporary  *)
(* file is created: in no state has it a staging file or an engine call.   *)
C2_RejectedBeforeStaging ==
    \A p \in Calls :
        (Entered(p) /\ ~Supported(locals[p].file)) =>
            /\ ~Bound(p, "temp_file")
            /\ FilesOf(locals[p].file.id) = {}
            /\ p \notin DOMAIN engine_log
            /\ pc[p] \in {"check_model", "validate", "done"}
            /\ pc[p] = "done" => outcome[p].kind = "HTTPException"

C2_Witness ==
    \E p \in Calls :
        /\ pc[p] = "done"
        /\ ~Supported(locals[p].file)
        /\ outcome[p].kind = "HTTPException"
        /\ outcome[p].status_code = 400

(* C3: transcribe_batch returns exactly one entry per input file, the i-th *)
(* entry carrying the filename of the i-th file, for any mix of valid,     *)
(* invalid and failing files and any state of the engine handle.           *)
C3_BatchCardinality ==
    /\ Len(batch.results) <= Len(batch.files)
    /\ \A i \in 1..Len(batch.results) : batch.results[i].filename = batch.files[i].filename
    /\ batch.returned => Len(batch.results) = Len(batch.files)

C3_Witness ==
    /\ batch.returned
    /\ Len(batch.files) >= 2
    /\ batch.files[1].filename # batch.files[2].filename
    /\ \E i, j \in 1..Len(batch.results) :
          batch.results[i].status = "success" /\ batch.results[j].status = "error"

(* C4: batch isolation: entry i has status success exactly when the        *)
(* single-item flow on file i alone succeeds, and status error otherwise;  *)
(* a POST /transcribe call ends in a 200 under the same condition.         *)
C4_BatchIsolation ==
    /\ \A i \in 1..Len(batch.results) :
          /\ batch.results[i].status \in {"success", "error"}
          /\ batch.results[i].status = "success" <=> SingleItemSucceeds(batch.files[i])
    /\ \A p \in Clients :
          pc[p] = "done" =>
             (HttpResponse(outcome[p]).status_code = 200
                <=> SingleItemSucceeds(request[p].file))

C4_Witness ==
    /\ batch.returned
    /\ Len(batch.results) >= 2
    /\ batch.results[1].status = "error"
    /\ batch.results[2].status = "success"

(* C5: every POST /transcribe request whose filename has an unsupported    *)
(* extension is answered 400 with the extension in the detail, whether the *)
(* engine handle is loaded or not.                                         *)
C5_UnsupportedIs400 ==
    \A p \in Clients :
        (pc[p] = "done" /\ ~Supported(request[p].file)) =>
            /\ HttpResponse(outcome[p]).status_code = 400
            /\ HttpResponse(outcome[p]).detail.file_ext = ExtensionOf(request[p].file)

(* C6: the finally block never replaces the outcome in flight (the return  *)
(* value or the 500 of the except branch), whether the deletion succeeds,  *)
(* fails or cannot be attempted, and no exception of its own escapes.      *)
C6_ReleaseKeepsOutcome ==
    [][\A p \in Calls :
          /\ (pc[p] = "finally" /\ pc'[p] = "exit_with") => inflight'[p] = inflight[p]
          /\ (pc[p] = "exit_with" /\ pc'[p] = "done") =>
                outcome'[p].kind \in {"return", "HTTPException"}]_vars

---------------------------------------------------------------------------
\* the language hint the engine is to get for a form value, absent included
HintOf(form) ==
    CASE form = NoField -> "si"
      [] form \in {"si", "en"} -> form
      [] OTHER -> "None"

\* the form value behind call p
FormOf(p) == IF p = BatchCallId THEN batch.form ELSE request[p].language

(* C7 as stated: the engine gets the caller's value when it is "si" or     *)
(* "en" and auto-detect (None) for every other value, an absent value      *)
(* included.                                                               *)
C7_AbsentIsAutoDetect ==
    \A p \in DOMAIN engine_log :
        engine_log[p].language =
            IF FormOf(p) \in {"si", "en"} THEN FormOf(p) ELSE "None"

(* C7 amended: the engine gets the value sent when it is exactly "si" or   *)
(* "en", None for every other value sent ("auto" and "xx" included), and   *)
(* "si", the default of the parameter, when no value is sent; the language *)
(* never causes a rejection: a supported file reaches the engine unless    *)
(* its read or write fails.                                                *)
C7_LanguageNormalization ==
    /\ \A p \in DOMAIN engine_log : engine_log[p].language = HintOf(FormOf(p))
    /\ \A p \in Calls :
          (/\ pc[p] = "done"
           /\ whisper_model = "loaded"
           /\ Supported(locals[p].file)
           /\ locals[p].file.fault \in {"none", "engine"}) => p \in DOMAIN engine_log

C7_Witness ==
    \E p \in Clients :
        /\ pc[p] = "done"
        /\ request[p].language = "xx"
        /\ p \in DOMAIN engine_log
        /\ engine_log[p].language = "None"
        /\ HttpResponse(outcome[p]).status_code = 200

(* C8: a successful response has segments exactly when timestamp was true  *)
(* and the engine's result had segments; then they are the engine's, in    *)
(* number, order, start and end; a successful batch entry has none.        *)
C8_SegmentsIffTimestamp ==
    /\ \A p \in Clients :
          (pc[p] = "done" /\ outcome[p].kind = "return") =>
             LET body == outcome[p].body
                 result == locals[p].result
             IN  /\ "segments" \in DOMAIN body
                       <=> (request[p].timestamp /\ "segments" \in DOMAIN result)
                 /\ "segments" \in DOMAIN body =>
                       /\ Len(body.segments) = Len(result.segments)
                       /\ \A i \in 1..Len(body.segments) :
                             /\ body.segments[i].start = result.segments[i].start
                             /\ body.segments[i].end = result.segments[i].end
    /\ \A i \in 1..Len(batch.results) :
          batch.results[i].status = "success" =>
             "segments" \notin DOMAIN batch.results[i].result

C8_Witness ==
    \E p \in Clients :
        /\ pc[p] = "done"
        /\ outcome[p].kind = "return"
        /\ "segments" \in DOMAIN outcome[p].body
        /\ Len(outcome[p].body.segments) >= 2
        /\ outcome[p].body.segments[1] # outcome[p].body.segments[2]

(* C9 as stated: the text and the text of every returned segment of a      *)
(* successful response have no leading or trailing whitespace.             *)
C9_AllTextsTrimmed ==
    \A p \in Clients :
        (pc[p] = "done" /\ outcome[p].kind = "return") =>
            /\ Trimmed(outcome[p].body.text)
            /\ "segments" \in DOMAIN outcome[p].body =>
                  \A i \in 1..Len(outcome[p].body.segments) :
                      Trimmed(outcome[p].body.segments[i].text)

(* C9 amended: the top-level text of a successful response has no leading  *)
(* or trailing whitespace (it is the engine's text less the whitespace at  *)
(* its ends); the text of every returned segment is the engine's segment   *)
(* text unchanged, whitespace included.                                    *)
C9_TextTrimmedSegmentsCopied ==
    \A p \in Calls :
        (pc[p] = "done" /\ outcome[p].kind = "return") =>
            LET body == outcome[p].body
                result == locals[p].result
            IN  /\ Trimmed(body.text)
                /\ \E i, j \in 0..Len(result.text) :
                      /\ body.text = SubSeq(result.text, i + 1, j)
                      /\ \A k \in (1..i) \cup ((j + 1)..Len(result.text)) :
                            result.text[k] \in Whitespace
                /\ "segments" \in DOMAIN body =>
                      \A i \in 1..Len(body.segments) :
                          body.segments[i].text = result.segments[i].text

C9_Witness ==
    \E p \in Clients :
        /\ pc[p] = "done"
        /\ outcome[p].kind = "return"
        /\ outcome[p].body.text # locals[p].result.text
        /\ "segments" \in DOMAIN outcome[p].body
        /\ \E i \in 1..Len(outcome[p].body.segments) :
              ~Trimmed(outcome[p].body.segments[i].text)

---------------------------------------------------------------------------
\* concurrent calls inside the staging scope hold different paths, and the
\* file under each is the one its call created
StagingIsolated ==
    /\ \A p, q \in Calls :
          (p # q /\ InScope(p) /\ InScope(q)) => locals[p].temp_file # locals[q].temp_file
    /\ \A p \in Calls :
          InScope(p) =>
             /\ locals[p].temp_file \in DOMAIN fs
             /\ fs[locals[p].temp_file].owner = locals[p].file.id
             /\ fs[locals[p].temp_file].written \in {NoBytes, locals[p].file.id}
    /\ \A p \in DOMAIN engine_log : engine_log[p].path = locals[p].temp_file

(* C10: concurrent calls use pairwise distinct staging files: each call    *)
(* invokes the engine on the path holding its own upload's bytes, and no   *)
(* call's cleanup deletes a file another call created and has not released.*)
C10_OwnStagingFile ==
    /\ StagingIsolated
    /\ \A p, q \in Clients :
          (p # q /\ InScope(p) /\ InScope(q) /\ p \in DOMAIN engine_log) =>
             engine_log[p].audio = locals[p].file.id

====
